---- MODULE Spec2Model ----
(***************************************************************************)
(* RigidBodyTree (MultibodyComputation/SimbodyRigidBodies/RigidBodyTree.cpp)*)
(* as a state machine: the node forest, the nodeNum lookup, the distance   *)
(* constraints with their runtime slots, the aggregate sizes, the          *)
(* constraint solver handle and the level-ordered sweeps; and SBState, the *)
(* container of two optional owned sub-objects, with its copy operations.  *)
(*                                                                         *)
(* C++ containers are 0-based, TLA+ sequences 1-based: level L lives at    *)
(* rbNodeLevels[L+1], nodeNum k at nodeNum2NodeMap[k+1], runtime slot i at *)
(* dcRuntimeInfo[i+1].  The stored numbers (level, offset, nodeNum,        *)
(* runtimeIndex) keep their C++ values.                                    *)
(***************************************************************************)
EXTENDS Integers, Sequences, FiniteSets, TLC

VARIABLES
    node,                \* heap of RigidBodyNode objects: id -> fields
    rbNodeLevels,        \* sequence of levels, each a sequence of node ids
    nodeNum2NodeMap,     \* sequence of RigidBodyNodeIndex(level, offset)
    distanceConstraints, \* sequence of RBDistanceConstraint
    dcRuntimeInfo,       \* sequence of RBDistanceConstraintRuntime
    DOFTotal, SqDOFTotal, maxNQTotal,
    lConstraints,        \* 0 = null, k = the k-th LengthConstraints built
    realized,            \* history: stages completed in pipeline order
    inserted,            \* history: node ids in the order they were added
    visits,              \* per-node / per-constraint calls of the last call
    sFrcPasses,          \* force lists given to calcTreeForwardDynamics by
                         \* the last calcLoopForwardDynamics
    spatialForces,       \* the caller's force list after the last call
    lastCall,            \* the last call: operation, arguments, result
    status,              \* "running", or "aborted" once the process died
    sbStates,            \* SBState containers: id -> vars and cache pointers
    subObjects           \* the free store: address -> content of the
                         \* SimbodyTreeVariables / SimbodyTreeResults there

vars == <<node, rbNodeLevels, nodeNum2NodeMap, distanceConstraints,
          dcRuntimeInfo, DOFTotal, SqDOFTotal, maxNQTotal, lConstraints,
          realized, inserted, visits, sFrcPasses, spatialForces, lastCall,
          status, sbStates, subObjects>>

----------------------------------------------------------------------------
(* Bounds of the model. *)

MaxBodies == 2          \* caller-created bodies available for insertion
MaxConstraints == 2     \* addDistanceConstraint calls
MaxSolvers == 2         \* realizeConstruction calls
MaxStates == 2          \* SBState containers

----------------------------------------------------------------------------
(* Node objects. *)

Ground == 0                     \* the node addGroundNode creates
Bodies == 1..MaxBodies          \* the nodes the caller creates
NodeIds == {Ground} \cup Bodies
NoNode == 0 - 1                 \* null parent pointer
Unset == 0 - 1                  \* level / nodeNum of a node not in any tree

\* Joint kinds a caller body may have: <<getDOF(), getMaxNQ()>>.
JointKinds == { <<1, 1>>, <<3, 4>> }

\* A node as the caller creates it, before any tree has set its level and
\* nodeNum or linked it to a parent (RigidBodyNode is declared outside
\* RigidBodyTree.cpp).
FreshNode == [level |-> Unset, nodeNum |-> Unset, parent |-> NoNode,
              dof |-> 0, maxNQ |-> 0]

\* RigidBodyNode::create(MassProperties(), TransformMat(),
\*                       Joint::ThisIsGround, ...): no mobility.
GroundNode == [FreshNode EXCEPT !.dof = 0, !.maxNQ = 0]

----------------------------------------------------------------------------
(* Container helpers. *)

\* std::vector::resize(n): truncate, or pad with default elements.
Resize(s, n, fill) ==
    IF Len(s) >= n THEN SubSeq(s, 1, n)
    ELSE s \o [i \in 1..(n - Len(s)) |-> fill]

RECURSIVE Flatten(_)
Flatten(levels) ==
    IF levels = <<>> THEN <<>>
    ELSE Head(levels) \o Flatten(Tail(levels))

Reverse(s) == [i \in 1..Len(s) |-> s[Len(s) + 1 - i]]

Range(s) == { s[i] : i \in 1..Len(s) }

\* Variant: the outer loop runs from the last level down.
LevelsDescending(levels) == Flatten(Reverse(levels))

\* for i = 0 .. size-1, for j = 0 .. size(i)-1: ascending levels.
BaseToTip(levels) == Flatten(levels)

\* Variant: the outer loop runs from level 0 up.
LevelsAscending(levels) == Flatten(levels)

\* for i = size-1 .. 0, for j = 0 .. size(i)-1: descending levels.
TipToBase(levels) == Flatten(Reverse(levels))

InTree == Range(Flatten(rbNodeLevels))

getNBodies == Len(nodeNum2NodeMap)

\* Node objects that exist and can be named as a parent: every caller
\* body (in the tree or not), and the ground node once addGroundNode has
\* created it.  The code takes any RigidBodyNode& as parent.
Allocated == Bodies \cup (InTree \cap {Ground})

Call(op, a, b, r) == [op |-> op, a |-> a, b |-> b, ret |-> r]

\* A call that hands no force list to anything.
NoForces == sFrcPasses' = <<>> /\ spatialForces' = <<>>

\* The caller hands over its bodies in the order it created them: the next
\* body is the lowest-numbered one not yet in the tree.
NextBody == CHOOSE n \in Bodies \ InTree : \A m \in Bodies \ InTree : n <= m

----------------------------------------------------------------------------
(* SBState objects. *)

StateIds == 1..MaxStates
Null == 0                         \* the null pointer
Addresses == 1..(2 * MaxStates)   \* where a sub-object can be allocated
Contents == {0, 1}                \* what a sub-object can hold
Parts == {"vars", "cache"}        \* the two owned pointers of an SBState

\* An SBState that does not exist (not constructed yet, or destroyed).
NoState == [alive |-> FALSE, vars |-> Null, cache |-> Null]

----------------------------------------------------------------------------
\* A tree nothing has been added to.  The constructor is not part of
\* RigidBodyTree.cpp: lConstraints starts null (the destructor deletes it
\* unconditionally) and the sizes hold no sum yet.
Init ==
    /\ node = [n \in NodeIds |-> FreshNode]
    /\ rbNodeLevels = <<>>
    /\ nodeNum2NodeMap = <<>>
    /\ distanceConstraints = <<>>
    /\ dcRuntimeInfo = <<>>
    /\ DOFTotal = 0 - 1
    /\ SqDOFTotal = 0 - 1
    /\ maxNQTotal = 0 - 1
    /\ lConstraints = 0
    /\ realized = {}
    /\ inserted = <<>>
    /\ visits = <<>>
    /\ sFrcPasses = <<>>
    /\ spatialForces = <<>>
    /\ lastCall = Call("none", 0, 0, 0)
    /\ status = "running"
    /\ sbStates = [s \in StateIds |-> NoState]
    /\ subObjects = <<>>

----------------------------------------------------------------------------
(* Tree construction. *)

\* Variant: the offset within the level taken as the node's number.
NodeNumFromOffset(map, nxt) == nxt

\* const int nodeNum = nodeNum2NodeMap.size();
AssignedNodeNum(map, nxt) == Len(map)

\* Variant: the offset read after the push_back.
OffsetAfterPush(lvl) == Len(lvl) + 1

\* const int nxt = rbNodeLevels[level].size();
NextOffset(lvl) == Len(lvl)

\* int RigidBodyTree::addRigidBodyNode(parent, referenceConfig, nodep)
addRigidBodyNode(p, n, kind) ==
    LET level   == node[p].level + 1
        grown   == IF Len(rbNodeLevels) <= level
                   THEN Resize(rbNodeLevels, level + 1, <<>>)
                   ELSE rbNodeLevels
        nxt     == NextOffset(grown[level + 1])
        nodeNum == AssignedNodeNum(nodeNum2NodeMap, nxt)
    IN  /\ status = "running"
        /\ Bodies \ InTree # {}
        /\ n = NextBody
        /\ p \in Allocated \ {n}
        /\ kind \in JointKinds
        /\ rbNodeLevels' = [grown EXCEPT ![level + 1] = Append(@, n)]
        /\ nodeNum2NodeMap' =
               Append(nodeNum2NodeMap, [level |-> level, offset |-> nxt])
        /\ node' = [node EXCEPT ![n] = [level |-> level, nodeNum |-> nodeNum,
                                        parent |-> p, dof |-> kind[1],
                                        maxNQ |-> kind[2]]]
        /\ inserted' = Append(inserted, n)
        /\ UNCHANGED <<sbStates, subObjects>>
        /\ lastCall' = Call("addRigidBodyNode", p, n, nodeNum)
        /\ visits' = <<>>
        /\ NoForces
        /\ UNCHANGED <<distanceConstraints, dcRuntimeInfo, DOFTotal,
                       SqDOFTotal, maxNQTotal, lConstraints, realized,
                       status>>

\* Variant: the assertions compiled out.
NoGroundPrecondition(map, levels) == TRUE

\* assert(nodeNum2NodeMap.size() == 0); assert(rbNodeLevels.size() == 0);
\* A failed assert aborts the process.
GroundPrecondition(map, levels) == Len(map) = 0 /\ Len(levels) = 0

\* void RigidBodyTree::addGroundNode()
addGroundNode ==
    /\ status = "running"
    /\ UNCHANGED <<sbStates, subObjects>>
    /\ lastCall' = Call("addGroundNode", 0, 0, 0)
    /\ visits' = <<>>
    /\ IF GroundPrecondition(nodeNum2NodeMap, rbNodeLevels)
       THEN /\ rbNodeLevels' =
                   [Resize(rbNodeLevels, 1, <<>>) EXCEPT ![1] = Append(@, Ground)]
            /\ nodeNum2NodeMap' =
                   Append(nodeNum2NodeMap, [level |-> 0, offset |-> 0])
            /\ node' = [node EXCEPT ![Ground] =
                            [GroundNode EXCEPT !.level = 0, !.nodeNum = 0]]
            /\ inserted' = Append(inserted, Ground)
            /\ UNCHANGED status
       ELSE /\ status' = "aborted"
            /\ UNCHANGED <<rbNodeLevels, nodeNum2NodeMap, node, inserted>>
    /\ NoForces
    /\ UNCHANGED <<distanceConstraints, dcRuntimeInfo, DOFTotal, SqDOFTotal,
                   maxNQTotal, lConstraints, realized>>

\* Variant: the index taken after the slot has been pushed.
RuntimeIndexAfterPush(rt, dcs) == Len(rt) + 1

\* dc.setRuntimeIndex(dcRuntimeInfo.size());
AssignedRuntimeIndex(rt, dcs) == Len(rt)

\* RBDistanceConstraintRuntime(): one cache slot.  The numbers computed into
\* a slot come from the nodes' kinematics; which slot each constraint
\* computes into, and when, is what visits records.  Of the numbers, the
\* slot keeps the position error and whether the unit direction is a
\* direction ("unit"), not computed yet ("unset") or the quotient by a
\* zero norm ("undefined").
FreshRuntime == [posErr |-> 0, velErr |-> 0, accErr |-> 0,
                 unitDirection |-> "unset"]

\* int RigidBodyTree::addDistanceConstraint(s1, s2, d)
addDistanceConstraint(n1, n2, d) ==
    LET dc == [stations |-> <<n1, n2>>, distance |-> d,
               runtimeIndex |->
                   AssignedRuntimeIndex(dcRuntimeInfo, distanceConstraints)]
    IN  /\ status = "running"
        /\ Len(distanceConstraints) < MaxConstraints
        /\ n1 \in InTree /\ n2 \in InTree
        \* the stations looked at: on the first and on the latest node
        /\ n1 = inserted[1] /\ n2 = inserted[Len(inserted)] /\ n1 # n2
        /\ dcRuntimeInfo' = Append(dcRuntimeInfo, FreshRuntime)
        /\ distanceConstraints' = Append(distanceConstraints, dc)
        /\ UNCHANGED <<sbStates, subObjects>>
        /\ lastCall' = Call("addDistanceConstraint", n1, n2,
                            Len(distanceConstraints') - 1)
        /\ visits' = <<>>
        /\ NoForces
        /\ UNCHANGED <<node, rbNodeLevels, nodeNum2NodeMap, DOFTotal,
                       SqDOFTotal, maxNQTotal, lConstraints, realized,
                       inserted, status>>

----------------------------------------------------------------------------
(* Topology finalization. *)

\* Variant: the loop stops one node short.
RECURSIVE SumAllButLast(_, _)
SumAllButLast(order, f) ==
    IF Len(order) <= 1 THEN 0
    ELSE f[Head(order)] + SumAllButLast(Tail(order), f)

\* for i, for j: total += f(rbNodeLevels[i][j])
RECURSIVE SumOver(_, _)
SumOver(order, f) ==
    IF order = <<>> THEN 0
    ELSE f[Head(order)] + SumOver(Tail(order), f)

\* void RigidBodyTree::realizeConstruction(ctol, verbose)
realizeConstruction ==
    LET order == BaseToTip(rbNodeLevels)
    IN  /\ status = "running"
        /\ lConstraints < MaxSolvers
        /\ DOFTotal' = SumOver(order, [n \in NodeIds |-> node[n].dof])
        /\ SqDOFTotal' =
               SumOver(order, [n \in NodeIds |-> node[n].dof * node[n].dof])
        /\ maxNQTotal' = SumOver(order, [n \in NodeIds |-> node[n].maxNQ])
        /\ lConstraints' = lConstraints + 1
        /\ UNCHANGED <<sbStates, subObjects>>
        /\ lastCall' = Call("realizeConstruction", 0, 0, 0)
        /\ visits' = <<>>
        /\ NoForces
        /\ UNCHANGED <<node, rbNodeLevels, nodeNum2NodeMap,
                       distanceConstraints, dcRuntimeInfo, realized, inserted,
                       status>>

----------------------------------------------------------------------------
(* Sweeps: the per-node and per-constraint calls one tree call makes. *)

Visit(op, target, arg) == [op |-> op, target |-> target, arg |-> arg]

\* rbNodeLevels[i][j]->op() over the nodes in the given order
NodeSweep(op, order) == [i \in 1..Len(order) |-> Visit(op, order[i], 0)]

\* distanceConstraints[i].op(dcRuntimeInfo[distanceConstraints[i]
\*                                          .getRuntimeIndex()])
\* Variant: every constraint computes into slot 0.
ConstraintSweepIntoFirstSlot(op) ==
    [i \in 1..Len(distanceConstraints) |-> Visit(op, 0, 0)]

ConstraintSweep(op) ==
    [i \in 1..Len(distanceConstraints) |->
        Visit(op, distanceConstraints[i].runtimeIndex, 0)]

\* The stages in the order the pipeline documents them ("setPos() must have
\* been called already", "Must have already called prepareForDynamics()").
Pipeline == <<"realizeModeling", "realizeParameters", "realizeConfiguration",
              "realizeVelocity", "prepareForDynamics">>

StageIndex(op) == CHOOSE k \in 1..Len(Pipeline) : Pipeline[k] = op

\* Has everything stage op builds on been done: the topology is finalized
\* and the stage before it has completed in its turn.
Ready(op) ==
    /\ lConstraints # 0
    /\ StageIndex(op) > 1 => Pipeline[StageIndex(op) - 1] \in realized

\* realized after stage op returns: op counts as completed when it ran on
\* completed prerequisites.
Completed(op) == IF Ready(op) THEN realized \cup {op} ELSE realized

ConstructionFrame ==
    UNCHANGED <<node, rbNodeLevels, nodeNum2NodeMap, distanceConstraints,
                DOFTotal, SqDOFTotal, maxNQTotal, lConstraints, inserted>>

\* void RigidBodyTree::realizeModeling(const SBState&) const
realizeModeling ==
    /\ status = "running"
    /\ visits' = NodeSweep("realizeModeling", BaseToTip(rbNodeLevels))
    /\ realized' = Completed("realizeModeling")
    /\ UNCHANGED <<sbStates, subObjects>>
    /\ lastCall' = Call("realizeModeling", 0, 0, 0)
    /\ ConstructionFrame
    /\ NoForces
    /\ UNCHANGED <<dcRuntimeInfo, status>>

\* void RigidBodyTree::realizeParameters(const SBState&) const
realizeParameters ==
    /\ status = "running"
    /\ visits' = NodeSweep("realizeParameters", BaseToTip(rbNodeLevels))
    /\ realized' = Completed("realizeParameters")
    /\ UNCHANGED <<sbStates, subObjects>>
    /\ lastCall' = Call("realizeParameters", 0, 0, 0)
    /\ ConstructionFrame
    /\ NoForces
    /\ UNCHANGED <<dcRuntimeInfo, status>>

\* What the positions pos put between the two stations of a constraint:
\* separation = fromTip1ToTip2_G.norm().
Separations == {0, 2}

\* void RBDistanceConstraint::calcPosInfo(RBDistanceConstraintRuntime& rt)
calcPosInfo(dc, rt, separation) ==
    [rt EXCEPT !.unitDirection = IF separation = 0 THEN "undefined"
                                 ELSE "unit",
               !.posErr = dc.distance - separation]

\* for i: distanceConstraints[i].calcPosInfo(
\*            dcRuntimeInfo[distanceConstraints[i].getRuntimeIndex()])
\* from constraint i on; sep[i] is the separation of constraint i.
RECURSIVE PosInfoSweep(_, _, _)
PosInfoSweep(rt, i, sep) ==
    IF i > Len(distanceConstraints) THEN rt
    ELSE LET dc   == distanceConstraints[i]
             slot == dc.runtimeIndex + 1
         IN  PosInfoSweep([rt EXCEPT ![slot] = calcPosInfo(dc, rt[slot],
                                                           sep[i])],
                          i + 1, sep)

\* void RigidBodyTree::realizeConfiguration(const Vector& pos)
realizeConfiguration(sep) ==
    /\ status = "running"
    /\ visits' = NodeSweep("realizeConfiguration", BaseToTip(rbNodeLevels))
                 \o ConstraintSweep("calcPosInfo")
    /\ dcRuntimeInfo' = PosInfoSweep(dcRuntimeInfo, 1, sep)
    /\ realized' = Completed("realizeConfiguration")
    /\ UNCHANGED <<sbStates, subObjects>>
    /\ lastCall' = Call("realizeConfiguration", sep, 0, 0)
    /\ ConstructionFrame
    /\ NoForces
    /\ UNCHANGED status

\* void RigidBodyTree::realizeVelocity(const Vector& vel)
realizeVelocity ==
    /\ status = "running"
    /\ visits' = NodeSweep("realizeVelocity", BaseToTip(rbNodeLevels))
                 \o ConstraintSweep("calcVelInfo")
    /\ UNCHANGED dcRuntimeInfo
    /\ realized' = Completed("realizeVelocity")
    /\ UNCHANGED <<sbStates, subObjects>>
    /\ lastCall' = Call("realizeVelocity", 0, 0, 0)
    /\ ConstructionFrame
    /\ NoForces
    /\ UNCHANGED status

\* void RigidBodyTree::enforceTreeConstraints(Vector& pos, Vector& vel)
enforceTreeConstraints ==
    /\ status = "running"
    /\ visits' = NodeSweep("enforceConstraints", BaseToTip(rbNodeLevels))
    /\ UNCHANGED <<sbStates, subObjects>>
    /\ lastCall' = Call("enforceTreeConstraints", 0, 0, 0)
    /\ ConstructionFrame
    /\ NoForces
    /\ UNCHANGED <<dcRuntimeInfo, realized, status>>

\* What a call through lConstraints can do.  With a solver it returns; the
\* member call through a null lConstraints is undefined behaviour: the
\* process dies, or the call goes through on whatever memory is there.
SolverOutcomes == IF lConstraints = 0 THEN {"crash", "return"} ELSE {"return"}

\* void RigidBodyTree::enforceConstraints(Vector& pos, Vector& vel)
enforceConstraints(outcome) ==
    /\ status = "running"
    /\ outcome \in SolverOutcomes
    /\ status' = IF outcome = "crash" THEN "aborted" ELSE status
    /\ visits' = <<>>
    /\ UNCHANGED <<sbStates, subObjects>>
    /\ lastCall' = Call("enforceConstraints", 0, 0, 0)
    /\ ConstructionFrame
    /\ NoForces
    /\ UNCHANGED <<dcRuntimeInfo, realized>>

\* void RigidBodyTree::calcP(): tip to base
calcP == NodeSweep("calcP", TipToBase(rbNodeLevels))

\* void RigidBodyTree::prepareForDynamics()
prepareForDynamics ==
    /\ status = "running"
    /\ visits' = calcP
    /\ realized' = Completed("prepareForDynamics")
    /\ UNCHANGED <<sbStates, subObjects>>
    /\ lastCall' = Call("prepareForDynamics", 0, 0, 0)
    /\ ConstructionFrame
    /\ NoForces
    /\ UNCHANGED <<dcRuntimeInfo, status>>

\* Force lists: one SpatialVec per node, entry k for nodeNum k.
ForceBases == {0, 10}
ForceLists == { [i \in 1..getNBodies |-> b + i] : b \in ForceBases }

Corrections == {5}
CorrectionLists == { [i \in 1..getNBodies |-> c] : c \in Corrections }

NoEntry == 0 - 99

\* Variant: the entry before the node's own.
EntryBefore(sf, nodeNum) == IF nodeNum \in DOMAIN sf THEN sf[nodeNum]
                            ELSE NoEntry

\* spatialForces[node.getNodeNum()]
Entry(sf, nodeNum) == IF nodeNum + 1 \in DOMAIN sf THEN sf[nodeNum + 1]
                      ELSE NoEntry

\* void RigidBodyTree::calcZ(const SpatialVecList&): tip to base
calcZ(sf) ==
    LET order == TipToBase(rbNodeLevels)
    IN  [i \in 1..Len(order) |->
            Visit("calcZ", order[i], Entry(sf, node[order[i]].nodeNum))]

\* void RigidBodyTree::calcTreeAccel(): base to tip
calcTreeAccel == NodeSweep("calcAccel", BaseToTip(rbNodeLevels))

\* Variant: the accelerations are swept before the forces.
AccelBeforeZ(sf) ==
    calcTreeAccel \o calcZ(sf) \o ConstraintSweep("calcAccInfo")

\* the calls one calcTreeForwardDynamics(sf) makes
TreeForwardDynamicsVisits(sf) ==
    calcZ(sf) \o calcTreeAccel \o ConstraintSweep("calcAccInfo")

\* void RigidBodyTree::calcTreeForwardDynamics(const SpatialVecList&)
calcTreeForwardDynamics(sf) ==
    /\ status = "running"
    /\ sf \in ForceLists
    /\ visits' = TreeForwardDynamicsVisits(sf)
    /\ UNCHANGED dcRuntimeInfo
    /\ spatialForces' = sf
    /\ sFrcPasses' = <<>>
    /\ UNCHANGED <<sbStates, subObjects>>
    /\ lastCall' = Call("calcTreeForwardDynamics", 0, 0, 0)
    /\ ConstructionFrame
    /\ UNCHANGED <<realized, status>>

\* lConstraints->addInCorrectionForces(sFrc)
addInCorrectionForces(sFrc, corr) ==
    [i \in 1..Len(sFrc) |-> sFrc[i] + Entry(corr, i - 1)]

\* Variant: a second corrective pass.
LoopPassesUntilBound(sf, needed, corr) ==
    IF needed
    THEN <<sf, addInCorrectionForces(sf, corr),
           addInCorrectionForces(addInCorrectionForces(sf, corr), corr)>>
    ELSE <<sf>>

\* The force lists calcLoopForwardDynamics hands to calcTreeForwardDynamics,
\* given what calcConstraintForces() answered.
LoopPasses(sf, needed, corr) ==
    IF needed THEN <<sf, addInCorrectionForces(sf, corr)>> ELSE <<sf>>

\* Variant: sFrc a reference to the caller's list instead of a copy.
CallerForcesAliased(sf, needed, corr) ==
    IF needed THEN addInCorrectionForces(sf, corr) ELSE sf

\* The caller's list after the call: sFrc is a copy, spatialForces is const.
CallerForcesAfter(sf, needed, corr) == sf

RECURSIVE ConcatVisits(_)
ConcatVisits(passes) ==
    IF passes = <<>> THEN <<>>
    ELSE TreeForwardDynamicsVisits(Head(passes)) \o ConcatVisits(Tail(passes))

\* void RigidBodyTree::calcLoopForwardDynamics(const SpatialVecList&)
calcLoopForwardDynamics(sf, outcome, needed, corr) ==
    LET passes == IF outcome = "crash" THEN <<sf>>
                  ELSE LoopPasses(sf, needed, corr)
    IN  /\ status = "running"
        /\ sf \in ForceLists
        /\ outcome \in SolverOutcomes
        /\ needed \in BOOLEAN
        /\ corr \in CorrectionLists
        /\ outcome = "crash" => ~needed
        /\ sFrcPasses' = passes
        /\ visits' = ConcatVisits(passes)
        /\ UNCHANGED dcRuntimeInfo
        /\ spatialForces' = CallerForcesAfter(sf, needed, corr)
        /\ status' = IF outcome = "crash" THEN "aborted" ELSE status
        /\ UNCHANGED <<sbStates, subObjects>>
        /\ lastCall' = Call("calcLoopForwardDynamics", sf,
                            IF outcome = "crash" THEN "crash"
                            ELSE IF needed THEN "correct" ELSE "accept",
                            0)
        /\ ConstructionFrame
        /\ UNCHANGED realized

\* void RigidBodyTree::calcY(): base to tip
calcY ==
    /\ status = "running"
    /\ visits' = NodeSweep("calcY", BaseToTip(rbNodeLevels))
    /\ UNCHANGED <<sbStates, subObjects>>
    /\ lastCall' = Call("calcY", 0, 0, 0)
    /\ ConstructionFrame
    /\ NoForces
    /\ UNCHANGED <<dcRuntimeInfo, realized, status>>

\* void RigidBodyTree::calcTreeInternalForces(const SpatialVecList&)
calcTreeInternalForces(sf) ==
    LET order == TipToBase(rbNodeLevels)
    IN  /\ status = "running"
        /\ sf \in ForceLists
        /\ visits' = [i \in 1..Len(order) |->
                         Visit("calcInternalForce", order[i],
                               Entry(sf, node[order[i]].nodeNum))]
        /\ spatialForces' = sf
        /\ sFrcPasses' = <<>>
        /\ UNCHANGED <<sbStates, subObjects>>
        /\ lastCall' = Call("calcTreeInternalForces", 0, 0, 0)
        /\ ConstructionFrame
        /\ UNCHANGED <<dcRuntimeInfo, realized, status>>

----------------------------------------------------------------------------
Distances == {2}

Next ==
    \/ addGroundNode
    \/ \E p \in NodeIds, n \in Bodies, kind \in JointKinds :
           addRigidBodyNode(p, n, kind)
    \/ \E n1 \in NodeIds, n2 \in NodeIds, d \in Distances :
           addDistanceConstraint(n1, n2, d)
    \/ realizeConstruction
    \/ realizeModeling
    \/ realizeParameters
    \/ \E sep \in [1..Len(distanceConstraints) -> Separations] :
           realizeConfiguration(sep)
    \/ realizeVelocity
    \/ enforceTreeConstraints
    \/ \E outcome \in {"crash", "return"} : enforceConstraints(outcome)
    \/ prepareForDynamics
    \/ \E sf \in ForceLists : calcTreeForwardDynamics(sf)
    \/ \E sf \in ForceLists, outcome \in {"crash", "return"},
          needed \in BOOLEAN, corr \in CorrectionLists :
           calcLoopForwardDynamics(sf, outcome, needed, corr)
    \/ calcY
    \/ \E sf \in ForceLists : calcTreeInternalForces(sf)

Spec == Init /\ [][Next]_vars

\* The construction-time API and the loop forward dynamics.
LoopNext ==
    \/ addGroundNode
    \/ \E p \in NodeIds, n \in Bodies, kind \in JointKinds :
           addRigidBodyNode(p, n, kind)
    \/ \E n1 \in NodeIds, n2 \in NodeIds, d \in Distances :
           addDistanceConstraint(n1, n2, d)
    \/ realizeConstruction
    \/ \E sf \in ForceLists, outcome \in {"crash", "return"},
          needed \in BOOLEAN, corr \in CorrectionLists :
           calcLoopForwardDynamics(sf, outcome, needed, corr)

SpecLoop == Init /\ [][LoopNext]_vars

\* The construction-time API alone.
BuildNext ==
    \/ addGroundNode
    \/ \E p \in NodeIds, n \in Bodies, kind \in JointKinds :
           addRigidBodyNode(p, n, kind)
    \/ \E n1 \in NodeIds, n2 \in NodeIds, d \in Distances :
           addDistanceConstraint(n1, n2, d)
    \/ realizeConstruction

SpecBuild == Init /\ [][BuildNext]_vars

\* Building the forest, and the calls that sweep it.
SweepNext ==
    \/ addGroundNode
    \/ \E p \in NodeIds, n \in Bodies, kind \in JointKinds :
           addRigidBodyNode(p, n, kind)
    \/ realizeConfiguration(<<>>)
    \/ realizeVelocity
    \/ prepareForDynamics
    \/ \E sf \in ForceLists : calcTreeForwardDynamics(sf)
    \/ calcY
    \/ \E sf \in ForceLists : calcTreeInternalForces(sf)

SpecSweeps == Init /\ [][SweepNext]_vars

\* Building a forest of one-DOF bodies with distance constraints on it, and
\* the calls that recompute the constraints, at positions that keep the
\* stations of every constraint apart.
ConstraintNext ==
    \/ addGroundNode
    \/ \E p \in NodeIds, n \in Bodies : addRigidBodyNode(p, n, <<1, 1>>)
    \/ \E n1 \in NodeIds, n2 \in NodeIds, d \in Distances :
           addDistanceConstraint(n1, n2, d)
    \/ \E sep \in [1..Len(distanceConstraints) -> Separations \ {0}] :
           realizeConfiguration(sep)
    \/ realizeVelocity
    \/ \E sf \in ForceLists : calcTreeForwardDynamics(sf)

SpecConstraints == Init /\ [][ConstraintNext]_vars

----------------------------------------------------------------------------
(* SBState: construction, copy, assignment, destruction. *)

\* Everything of the tree but the record of the last call.
treeState == <<node, rbNodeLevels, nodeNum2NodeMap, distanceConstraints,
               dcRuntimeInfo, DOFTotal, SqDOFTotal, maxNQTotal, lConstraints,
               realized, inserted, visits, sFrcPasses, spatialForces,
               status>>

\* operator new: some address nothing lives at; a freed address can be
\* handed out again.  Which free address it is makes no difference to the
\* program, so the allocator hands out the one preferred by the caller
\* when it is free, and the lowest free one otherwise.
NewAddress(heap, preferred) ==
    IF preferred \notin DOMAIN heap THEN preferred
    ELSE CHOOSE a \in Addresses \ DOMAIN heap :
             \A b \in Addresses \ DOMAIN heap : a <= b

\* The address preferred for a sub-object of container s.
Home(s, part) == 2 * (s - 1) + (IF part = "vars" THEN 1 ELSE 2)

\* operator delete on a set of pointers.
Delete(heap, ptrs) == [a \in DOMAIN heap \ ptrs |-> heap[a]]

\* Variant: the copy takes over the source's pointer.
SharedPointer(srcPtr, fresh) == srcPtr

\* if (src.vars) vars = new SimbodyTreeVariables(*src.vars);  else vars
\* stays 0; the same for cache.
CopiedPointer(srcPtr, fresh) == IF srcPtr = Null THEN Null ELSE fresh

\* The free store after the pointer ptr was made a copy of srcPtr.
AfterCopy(heap, ptr, srcPtr) ==
    IF ptr = Null THEN heap ELSE (ptr :> heap[srcPtr]) @@ heap

\* The two pointers of a copy of src, and the free store holding the
\* copies: vars first, then cache.
CopyInto(heap, src, d) ==
    LET v  == CopiedPointer(src.vars, NewAddress(heap, Home(d, "vars")))
        h1 == AfterCopy(heap, v, src.vars)
        c  == CopiedPointer(src.cache, NewAddress(h1, Home(d, "cache")))
        h2 == AfterCopy(h1, c, src.cache)
    IN  [vars |-> v, cache |-> c, heap |-> h2]

\* A client builds an SBState and gives it the sub-objects it needs (the
\* other constructors are not part of RigidBodyTree.cpp).
construct(s, hasVars, hasCache) ==
    /\ ~sbStates[s].alive
    /\ LET v  == IF hasVars THEN NewAddress(subObjects, Home(s, "vars"))
                 ELSE Null
           h1 == IF hasVars THEN (v :> 0) @@ subObjects ELSE subObjects
           c  == IF hasCache THEN NewAddress(h1, Home(s, "cache")) ELSE Null
           h2 == IF hasCache THEN (c :> 0) @@ h1 ELSE h1
       IN  /\ sbStates' = [sbStates EXCEPT ![s] =
                   [alive |-> TRUE, vars |-> v, cache |-> c]]
           /\ subObjects' = h2
    /\ lastCall' = Call("SBState", s, 0, 0)
    /\ UNCHANGED treeState

\* SBState::SBState(const SBState& src)
copyConstruct(d, src) ==
    /\ ~sbStates[d].alive
    /\ sbStates[src].alive
    /\ LET cp == CopyInto(subObjects, sbStates[src], d)
       IN  /\ sbStates' = [sbStates EXCEPT ![d] =
                   [alive |-> TRUE, vars |-> cp.vars, cache |-> cp.cache]]
           /\ subObjects' = cp.heap
    /\ lastCall' = Call("SBState(src)", d, src, 0)
    /\ UNCHANGED treeState

\* SBState& SBState::operator=(const SBState& src)
assign(d, src) ==
    /\ sbStates[d].alive
    /\ sbStates[src].alive
    /\ IF src # d
       THEN LET freed == Delete(subObjects,
                                {sbStates[d].vars, sbStates[d].cache})
                cp    == CopyInto(freed, sbStates[src], d)
            IN  /\ sbStates' = [sbStates EXCEPT ![d] =
                        [alive |-> TRUE, vars |-> cp.vars,
                         cache |-> cp.cache]]
                /\ subObjects' = cp.heap
       ELSE UNCHANGED <<sbStates, subObjects>>
    /\ lastCall' = Call("operator=", d, src, 0)
    /\ UNCHANGED treeState

\* A client writes through one of the pointers of s.
mutate(s, part, content) ==
    /\ sbStates[s].alive
    /\ sbStates[s][part] \in DOMAIN subObjects
    /\ subObjects[sbStates[s][part]] # content
    /\ subObjects' = [subObjects EXCEPT ![sbStates[s][part]] = content]
    /\ UNCHANGED sbStates
    /\ lastCall' = Call("mutate", s, part, content)
    /\ UNCHANGED treeState

\* SBState::~SBState()
destroy(s) ==
    /\ sbStates[s].alive
    /\ subObjects' = Delete(subObjects,
                            {sbStates[s].vars, sbStates[s].cache})
    /\ sbStates' = [sbStates EXCEPT ![s] = NoState]
    /\ lastCall' = Call("~SBState", s, 0, 0)
    /\ UNCHANGED treeState

StateNext ==
    \/ \E s \in StateIds, hasVars \in BOOLEAN, hasCache \in BOOLEAN :
           construct(s, hasVars, hasCache)
    \/ \E d \in StateIds, src \in StateIds : copyConstruct(d, src)
    \/ \E d \in StateIds, src \in StateIds : assign(d, src)
    \/ \E s \in StateIds, part \in Parts, content \in Contents :
           mutate(s, part, content)
    \/ \E s \in StateIds : destroy(s)

SpecState == Init /\ [][StateNext]_vars

----------------------------------------------------------------------------
(* Properties. *)

numNodes == Len(Flatten(rbNodeLevels))

\* C1: every node's nodeNum is its 0-based insertion order: the k-th node
\* added has nodeNum k, the nodeNums in the tree are exactly 0..numNodes-1
\* with no two nodes sharing one, and addRigidBodyNode returns the nodeNum
\* it gave the node.
NodeNumIsInsertionOrder ==
    /\ Len(inserted) = numNodes
    /\ \A k \in 1..Len(inserted) : node[inserted[k]].nodeNum = k - 1
    /\ { node[n].nodeNum : n \in InTree } = 0..(numNodes - 1)
    /\ \A n \in InTree, m \in InTree :
           n # m => node[n].nodeNum # node[m].nodeNum
    /\ lastCall.op = "addRigidBodyNode" =>
           /\ lastCall.ret = node[lastCall.b].nodeNum
           /\ lastCall.ret = Len(inserted) - 1

\* C1 witness: a third node has been added, at an offset within its level
\* that differs from its nodeNum, and 2 was returned for it.
ThirdNodeAdded ==
    /\ lastCall.op = "addRigidBodyNode"
    /\ lastCall.ret = 2
    /\ Ground \in InTree
    /\ nodeNum2NodeMap[3].offset # 2

\* C2: every non-ground node's level is its parent's level + 1, and the
\* node is stored in the rbNodeLevels sequence of exactly that level.
ChildLevelIsParentLevelPlusOne ==
    \A n \in InTree \ {Ground} :
        /\ node[n].level = node[node[n].parent].level + 1
        /\ \A L \in 1..Len(rbNodeLevels) :
               (n \in Range(rbNodeLevels[L])) <=> (L = node[n].level + 1)

\* C3: the ground node has level 0 and DOF 0 and is the unique node at
\* level 0: level 0 never holds a second node.
GroundIsUniqueAtLevelZero ==
    Ground \in InTree =>
        /\ node[Ground].level = 0
        /\ node[Ground].dof = 0
        /\ rbNodeLevels[1] = <<Ground>>

\* C4: the i-th constraint added has runtimeIndex i, addDistanceConstraint
\* returns i for it, and dcRuntimeInfo has exactly one slot per constraint,
\* so the runtimeIndex values are a bijection onto 0..numConstraints-1.
RuntimeIndexIsInsertionIndex ==
    /\ Len(dcRuntimeInfo) = Len(distanceConstraints)
    /\ \A i \in 1..Len(distanceConstraints) :
           distanceConstraints[i].runtimeIndex = i - 1
    /\ { distanceConstraints[i].runtimeIndex :
             i \in 1..Len(distanceConstraints) }
           = 0..(Len(distanceConstraints) - 1)
    /\ lastCall.op = "addDistanceConstraint" =>
           lastCall.ret = Len(distanceConstraints) - 1

\* C4 witness: a second constraint has been added and index 1 returned.
SecondConstraintAdded ==
    /\ lastCall.op = "addDistanceConstraint"
    /\ lastCall.ret = 1
    /\ Len(distanceConstraints) = 2

\* C5: addGroundNode called when the tree already holds a node (a ground
\* node or a body added first) fails its precondition, adds no node and
\* leaves the forest and the nodeNum mapping as they were.
AddGroundNodeNeedsEmptyTree ==
    [][ (lastCall'.op = "addGroundNode" /\ getNBodies > 0) =>
            /\ status' = "aborted"
            /\ rbNodeLevels' = rbNodeLevels
            /\ nodeNum2NodeMap' = nodeNum2NodeMap
            /\ node' = node ]_vars

\* C5 witness: addGroundNode was called on a tree of two nodes and the
\* process stopped at the assertion.
AddGroundNodeRefused ==
    /\ lastCall.op = "addGroundNode"
    /\ status = "aborted"
    /\ getNBodies = 2

\* C6: a second realizeConstruction on the same tree is rejected as fatal:
\* the sizes are not aggregated again and no second LengthConstraints is
\* constructed.
SecondRealizeConstructionRejected ==
    [][ (lastCall'.op = "realizeConstruction" /\ lConstraints # 0) =>
            /\ status' = "aborted"
            /\ lConstraints' = lConstraints
            /\ DOFTotal' = DOFTotal
            /\ SqDOFTotal' = SqDOFTotal
            /\ maxNQTotal' = maxNQTotal ]_vars

\* C7: addRigidBodyNode with a parent that is not a node of this tree is
\* rejected: nothing is appended to any level, the node gets no nodeNum
\* and the nodeNum mapping stays as it was.
ForeignParentRejected ==
    [][ (lastCall'.op = "addRigidBodyNode" /\ lastCall'.a \notin InTree) =>
            /\ rbNodeLevels' = rbNodeLevels
            /\ nodeNum2NodeMap' = nodeNum2NodeMap
            /\ node'[lastCall'.b].nodeNum = Unset ]_vars

\* What each pipeline operation builds on (the stage before it).
Prerequisite ==
    [op \in {"realizeParameters", "realizeConfiguration", "realizeVelocity",
             "enforceConstraints", "prepareForDynamics",
             "calcTreeForwardDynamics", "calcLoopForwardDynamics"} |->
        CASE op = "realizeParameters"       -> "realizeModeling"
          [] op = "realizeConfiguration"    -> "realizeParameters"
          [] op = "realizeVelocity"         -> "realizeConfiguration"
          [] op = "enforceConstraints"      -> "realizeVelocity"
          [] op = "prepareForDynamics"      -> "realizeVelocity"
          [] op = "calcTreeForwardDynamics" -> "prepareForDynamics"
          [] op = "calcLoopForwardDynamics" -> "prepareForDynamics"]

\* The operations that call through lConstraints.
SolverCalls == {"enforceConstraints", "calcLoopForwardDynamics"}

\* C8: no pipeline operation takes effect (sweeps the nodes or calls the
\* solver, and returns) before realizeConstruction and before the stage it
\* depends on has completed: such a call stops the process instead.  (A
\* call through a null lConstraints has no defined effect and is left
\* aside.)
PipelineNeverSkipsPrerequisite ==
    [][ (/\ lastCall'.op \in DOMAIN Prerequisite \cup {"realizeModeling"}
         /\ status' = "running"
         /\ lastCall'.op \in SolverCalls => lConstraints # 0
         /\ lastCall'.op = "enforceConstraints" \/ visits' # <<>>) =>
            /\ lConstraints # 0
            /\ lastCall'.op \in DOMAIN Prerequisite =>
                   Prerequisite[lastCall'.op] \in realized ]_vars

\* the number of calcAccel sweeps (one per calcTreeForwardDynamics) in visits
AccelSweeps ==
    Cardinality({ i \in DOMAIN visits : visits[i].op = "calcAccel"
                                         /\ visits[i].target = inserted[1] })

\* C9: calcLoopForwardDynamics runs calcTreeForwardDynamics once when
\* calcConstraintForces reports no correction needed and twice when it
\* reports one, the second time on the forces with the correction added
\* in; it never runs a third pass.
LoopDynamicsIsOneCorrectivePass ==
    lastCall.op = "calcLoopForwardDynamics" =>
        /\ Len(sFrcPasses) <= 2
        /\ lastCall.b = "accept" => Len(sFrcPasses) = 1
        /\ lastCall.b = "correct" =>
               /\ Len(sFrcPasses) = 2
               /\ \E corr \in CorrectionLists :
                      sFrcPasses[2] = addInCorrectionForces(lastCall.a, corr)
        /\ numNodes > 0 => AccelSweeps = Len(sFrcPasses)

\* C9 witness: on a finalized tree of three nodes the solver asked for a
\* correction and two passes ran.
CorrectivePassRan ==
    /\ lastCall.op = "calcLoopForwardDynamics"
    /\ lastCall.b = "correct"
    /\ lConstraints # 0
    /\ numNodes = 3
    /\ Len(sFrcPasses) = 2
    /\ AccelSweeps = 2

\* C10: calcLoopForwardDynamics leaves the caller's force list as it was
\* given: the correction goes into the private copy only, and the first
\* pass runs on forces equal to the caller's.
LoopDynamicsKeepsCallerForces ==
    lastCall.op = "calcLoopForwardDynamics" =>
        /\ spatialForces = lastCall.a
        /\ sFrcPasses[1] = lastCall.a

\* C10 witness: a correction was added in, so the second pass ran on other
\* forces than the caller's list holds.
CorrectionWentToCopy ==
    /\ lastCall.op = "calcLoopForwardDynamics"
    /\ lastCall.b = "correct"
    /\ numNodes >= 2
    /\ sFrcPasses[2] # spatialForces

\* the sum of f over a set of nodes
RECURSIVE SetSum(_, _)
SetSum(S, f) ==
    IF S = {} THEN 0
    ELSE LET n == CHOOSE m \in S : TRUE
         IN  f[n] + SetSum(S \ {n}, f)

\* C11: on return from realizeConstruction, DOFTotal is the sum of getDOF()
\* over all nodes of the tree, SqDOFTotal the sum of getDOF() squared and
\* maxNQTotal the sum of getMaxNQ().
SizesAreSumsOverNodes ==
    lastCall.op = "realizeConstruction" =>
        /\ DOFTotal = SetSum(InTree, [n \in NodeIds |-> node[n].dof])
        /\ SqDOFTotal =
               SetSum(InTree, [n \in NodeIds |-> node[n].dof * node[n].dof])
        /\ maxNQTotal = SetSum(InTree, [n \in NodeIds |-> node[n].maxNQ])

\* C11 witness: realizeConstruction returned on a tree of ground, a body of
\* 1 DOF and a body of 3 DOF with 4 coordinates.
SizesOfMixedTree ==
    /\ lastCall.op = "realizeConstruction"
    /\ numNodes = 3
    /\ DOFTotal = 4
    /\ SqDOFTotal = 10
    /\ maxNQTotal = 5

NullView == 0 - 1      \* seen through a null pointer
FreedView == 0 - 2     \* seen through a pointer to a deleted object

\* What a client sees through one pointer of a container.
View(st, heap, part) ==
    IF st[part] = Null THEN NullView
    ELSE IF st[part] \in DOMAIN heap THEN heap[st[part]]
    ELSE FreedView

Untouched(t) ==
    /\ sbStates'[t].vars = sbStates[t].vars
    /\ sbStates'[t].cache = sbStates[t].cache
    /\ \A part \in Parts :
           View(sbStates'[t], subObjects', part)
               = View(sbStates[t], subObjects, part)

\* C12: a copy-constructed or copy-assigned SBState has, for each of vars
\* and cache, its own object equal to the source's when the source has one
\* and a null pointer when the source's is null; the source is as it was;
\* no two containers ever share a sub-object; writing through a container
\* or destroying it changes nothing another container holds; and
\* self-assignment changes nothing.
CopiesAreIndependent ==
    [][ LET op == lastCall'.op
            d  == lastCall'.a
            src == lastCall'.b
        IN  /\ (op \in {"SBState(src)", "operator="} /\ d # src) =>
                   /\ \A part \in Parts :
                          /\ sbStates[src][part] = Null =>
                                 sbStates'[d][part] = Null
                          /\ sbStates[src][part] # Null =>
                                 /\ sbStates'[d][part] # Null
                                 /\ sbStates'[d][part] # sbStates'[src][part]
                                 /\ View(sbStates'[d], subObjects', part)
                                        = View(sbStates[src], subObjects,
                                               part)
                   /\ \A t \in StateIds \ {d} :
                          sbStates[t].alive => Untouched(t)
            /\ (op = "operator=" /\ d = src) =>
                   /\ sbStates' = sbStates
                   /\ subObjects' = subObjects
            /\ op \in {"mutate", "~SBState"} =>
                   \A t \in StateIds \ {d} :
                       sbStates[t].alive => Untouched(t)
            /\ \A t \in StateIds, u \in StateIds, part \in Parts,
                  other \in Parts :
                   (/\ sbStates'[t].alive
                    /\ sbStates'[u].alive
                    /\ sbStates'[t][part] # Null
                    /\ <<t, part>> # <<u, other>>) =>
                       sbStates'[t][part] # sbStates'[u][other]
      ]_vars

\* C12 witness: a container has just been assigned from another one whose
\* vars had been written through and whose cache is null: it has its own
\* vars object with the same content, and no cache.
AssignedFromPartialState ==
    /\ lastCall.op = "operator="
    /\ lastCall.a # lastCall.b
    /\ LET d == sbStates[lastCall.a]
           src == sbStates[lastCall.b]
       IN  /\ src.cache = Null
           /\ d.cache = Null
           /\ src.vars # Null
           /\ d.vars \notin {Null, src.vars}
           /\ View(src, subObjects, "vars") = 1
           /\ View(d, subObjects, "vars") = 1

\* C13: when the two stations of a constraint are at the same point as
\* realizeConfiguration recomputes it, the call reports the degeneracy (it
\* returns something, or stops the program) and no slot is left with a unit
\* direction that is the quotient by the zero norm.
ZeroSeparationIsReported ==
    lastCall.op = "realizeConfiguration" =>
        \A i \in 1..Len(distanceConstraints) :
            lastCall.a[i] = 0 =>
                /\ dcRuntimeInfo[distanceConstraints[i].runtimeIndex + 1]
                       .unitDirection # "undefined"
                /\ lastCall.ret # 0 \/ status # "running"

\* Every node but ground was added under a parent that was in the tree.
InTreeParents ==
    \A k \in 1..Len(inserted) :
        inserted[k] # Ground =>
            \E j \in 1..(k - 1) : inserted[j] = node[inserted[k]].parent

\* The places in visits where op ran on target.
Runs(op, target) ==
    { i \in DOMAIN visits : visits[i].op = op /\ visits[i].target = target }

RunsOnce(op, target) == Cardinality(Runs(op, target)) = 1

RunsBefore(op, first, second) ==
    \A i \in Runs(op, first), j \in Runs(op, second) : i < j

\* The calls that sweep base to tip, each with the node operation it runs.
BaseToTipSweeps ==
    { <<"realizeConfiguration", "realizeConfiguration">>,
      <<"realizeVelocity", "realizeVelocity">>,
      <<"calcTreeForwardDynamics", "calcAccel">>,
      <<"calcY", "calcY">> }

\* The calls that sweep tip to base, each with the node operation it runs.
TipToBaseSweeps ==
    { <<"prepareForDynamics", "calcP">>,
      <<"calcTreeForwardDynamics", "calcZ">>,
      <<"calcTreeInternalForces", "calcInternalForce">> }

\* C14: in a base-to-tip sweep (realizeConfiguration, realizeVelocity,
\* calcTreeAccel, calcY) over a tree built with in-tree parents, the node
\* operation runs exactly once on every node, and on a node only after it
\* ran on the node's parent.
ParentBeforeChild ==
    InTreeParents =>
        \A sw \in BaseToTipSweeps :
            lastCall.op = sw[1] =>
                \A n \in InTree :
                    /\ RunsOnce(sw[2], n)
                    /\ n # Ground =>
                           /\ Runs(sw[2], node[n].parent) # {}
                           /\ RunsBefore(sw[2], node[n].parent, n)

\* C14 witness: realizeVelocity has swept a chain ground - body - body.
VelocitySweptChain ==
    /\ lastCall.op = "realizeVelocity"
    /\ InTreeParents
    /\ Len(rbNodeLevels) = 3
    /\ Len(visits) >= 3

\* C15: in a tip-to-base sweep (calcP, calcZ, calcTreeInternalForces) over
\* a tree built with in-tree parents, the node operation runs exactly once
\* on every node, and on a node only after it ran on all of the node's
\* children.
ChildrenBeforeParent ==
    InTreeParents =>
        \A sw \in TipToBaseSweeps :
            lastCall.op = sw[1] =>
                \A n \in InTree :
                    /\ RunsOnce(sw[2], n)
                    /\ \A c \in InTree :
                           node[c].parent = n =>
                               /\ Runs(sw[2], c) # {}
                               /\ RunsBefore(sw[2], c, n)

\* C15 witness: calcTreeInternalForces has swept a tree whose ground has
\* two children.
InternalForcesSweptFork ==
    /\ lastCall.op = "calcTreeInternalForces"
    /\ InTreeParents
    /\ Len(rbNodeLevels) = 2
    /\ Len(rbNodeLevels[2]) = 2
    /\ Len(visits) = 3

\* Every run of op1 on target1 comes before every run of op2 on target2.
Precedes(op1, target1, op2, target2) ==
    \A i \in Runs(op1, target1), j \in Runs(op2, target2) : i < j

\* The calls that recompute the constraints: the call, the node operation
\* of its sweep, the constraint operation.
ConstraintSweeps ==
    { <<"realizeConfiguration", "realizeConfiguration", "calcPosInfo">>,
      <<"realizeVelocity", "realizeVelocity", "calcVelInfo">> }

\* C16: in one realizeConfiguration (realizeVelocity) call, the constraint
\* added i-th recomputes its position (velocity) error exactly once, into
\* runtime slot i-1, after the node sweep has run on every node, and no
\* other recomputation takes place; realizeConfiguration leaves every slot
\* computed.
ConstraintsRecomputedAfterNodes ==
    \A sw \in ConstraintSweeps :
        lastCall.op = sw[1] =>
            /\ \A n \in InTree : RunsOnce(sw[2], n)
            /\ \A i \in 1..Len(distanceConstraints) :
                   /\ RunsOnce(sw[3], i - 1)
                   /\ \A n \in InTree : Precedes(sw[2], n, sw[3], i - 1)
                   /\ sw[3] = "calcPosInfo" =>
                          dcRuntimeInfo[i].unitDirection # "unset"
            /\ Cardinality({ i \in DOMAIN visits : visits[i].op = sw[3] })
                   = Len(distanceConstraints)

\* C16 witness: realizeConfiguration has run on three nodes and two
\* constraints.
TwoConstraintsRecomputed ==
    /\ lastCall.op = "realizeConfiguration"
    /\ numNodes = 3
    /\ Len(distanceConstraints) = 2
    /\ Len(visits) = 5
    /\ dcRuntimeInfo[2].unitDirection = "unit"

\* C17: in one calcTreeForwardDynamics call, calcZ has run on every node
\* before calcAccel runs on any node, and the acceleration error of every
\* constraint is recomputed only after calcAccel has run on every node.
ForcesThenAccelsThenConstraints ==
    lastCall.op = "calcTreeForwardDynamics" =>
        /\ \A n \in InTree :
               /\ RunsOnce("calcZ", n)
               /\ RunsOnce("calcAccel", n)
               /\ \A m \in InTree : Precedes("calcZ", n, "calcAccel", m)
        /\ \A i \in 1..Len(distanceConstraints) :
               /\ RunsOnce("calcAccInfo", i - 1)
               /\ \A n \in InTree :
                      Precedes("calcAccel", n, "calcAccInfo", i - 1)

\* C17 witness: calcTreeForwardDynamics has run on three nodes and two
\* constraints.
ForwardDynamicsRan ==
    /\ lastCall.op = "calcTreeForwardDynamics"
    /\ numNodes = 3
    /\ Len(distanceConstraints) = 2
    /\ Len(visits) = 8

\* The calls that hand a force list to the nodes, each with the node
\* operation it runs.
ForceSweeps ==
    { <<"calcTreeForwardDynamics", "calcZ">>,
      <<"calcTreeInternalForces", "calcInternalForce">> }

\* C20: in calcZ and calcTreeInternalForces, given a force list with one
\* entry per node, the k-th node added (nodeNum k-1) receives entry k-1 of
\* the list whatever its place in the sweep, and every index used is within
\* the list.
ForceEntryIsByNodeNum ==
    \A sw \in ForceSweeps :
        (lastCall.op = sw[1] /\ Len(spatialForces) = numNodes) =>
            \A k \in 1..Len(inserted) :
                /\ node[inserted[k]].nodeNum \in 0..(numNodes - 1)
                /\ Runs(sw[2], inserted[k]) # {}
                /\ \A i \in Runs(sw[2], inserted[k]) :
                       /\ visits[i].arg = spatialForces[k]
                       /\ visits[i].arg # NoEntry

\* C20 witness: calcTreeInternalForces has swept a chain of three nodes:
\* the node visited first is the one added last, and it got the last entry.
LastNodeServedFirst ==
    /\ lastCall.op = "calcTreeInternalForces"
    /\ numNodes = 3
    /\ Len(rbNodeLevels) = 3
    /\ visits[1].target = inserted[3]
    /\ visits[1].arg = spatialForces[3]

\* C18: nodeNum2NodeMap has one entry per node of the forest, and entry n
\* is a (level, offset) at which rbNodeLevels holds the node whose stored
\* nodeNum is n and whose stored level is that level.
LookupIsConsistent ==
    /\ Len(nodeNum2NodeMap) = numNodes
    /\ \A k \in 1..Len(nodeNum2NodeMap) :
           LET e == nodeNum2NodeMap[k]
           IN  /\ e.level + 1 \in DOMAIN rbNodeLevels
               /\ e.offset + 1 \in DOMAIN rbNodeLevels[e.level + 1]
               /\ LET n == rbNodeLevels[e.level + 1][e.offset + 1]
                  IN  /\ node[n].nodeNum = k - 1
                      /\ node[n].level = e.level

\* C18 witness: the third node added is the second one of level 1.
SecondNodeOfLevelOne ==
    /\ Len(nodeNum2NodeMap) = 3
    /\ nodeNum2NodeMap[3] = [level |-> 1, offset |-> 1]
    /\ node[rbNodeLevels[2][2]].nodeNum = 2

\* C19: once realizeConstruction has returned, no step changes the forest
\* or the constraint list, and after every step the three sizes are the
\* sums over the nodes then in the forest.
TopologyLockedAfterFinalization ==
    [][ lConstraints # 0 =>
            /\ rbNodeLevels' = rbNodeLevels
            /\ distanceConstraints' = distanceConstraints
            /\ DOFTotal' = SetSum(InTree', [n \in NodeIds |-> node'[n].dof])
            /\ SqDOFTotal' =
                   SetSum(InTree',
                          [n \in NodeIds |-> node'[n].dof * node'[n].dof])
            /\ maxNQTotal' =
                   SetSum(InTree', [n \in NodeIds |-> node'[n].maxNQ])
      ]_vars

====
